---- MODULE Spec2Model ----
(***************************************************************************)
(* Model of label-when-approved-action.  The repository holds two variants *)
(* of the same action: src/unnamed/part_000 (ES-module imports, called     *)
(* "esm" below) and src/index.js (CommonJS requires, called "cjs" below).  *)
(* One run of the action is modelled as a sequential process whose steps   *)
(* are the external calls (the await points of run and getReviews) and the *)
(* synchronous code between them.  The external collaborator (the hosting  *)
(* API) answers every call nondeterministically: it fails with an error    *)
(* message or returns data drawn from small sets.                          *)
(*                                                                         *)
(* Inputs not enumerated: a missing GITHUB_REPOSITORY / GITHUB_EVENT_NAME  *)
(* or token (thrown before the try block), and a numOfApprovals input that *)
(* parseInt turns into NaN or a negative number.                           *)
(***************************************************************************)
EXTENDS Integers, Sequences, FiniteSets, TLC

\* ------------------------------------------------------------------ bounds
MaxReviews == 2      \* longest review list the API returns in a run
MaxFoldLen == 3      \* longest review list handed to processReviews alone
MaxApprovals == 2    \* largest numOfApprovals input

\* ------------------------------------------------------------------ domains
Variants == {"esm", "cjs"}
Users == {"alice", "bob"}
FoldUsers == {"alice", "bob", "carol"}
ReviewStateNames == {"APPROVED", "CHANGES_REQUESTED", "COMMENTED"}
Permissions == {"admin", "write", "read"}
EventNames == {"pull_request_review", "workflow_run", "workflow_dispatch", "push"}
ErrorMessages == {"Not Found", "API rate limit exceeded"}
TheLabel == "approved"
LabelInputs == {"not set", TheLabel}
LabelSets == {{}, {TheLabel, "wip"}}
CommentInputs == {"", "LGTM"}
NumberInputs == {"not set", "9"}
Thresholds == 0..MaxApprovals

ReviewsOver(users) == [user : users, state : ReviewStateNames]
ReviewLists(users, n) == UNION {[1..k -> ReviewsOver(users)] : k \in 0..n}

VARIABLES
    variant,                        \* which of the two source files runs
    eventName,                      \* GITHUB_EVENT_NAME
    payloadHasPR,                   \* context.payload.pull_request is present
    pullRequestNumberInput,         \* input pullRequestNumber, "not set" by default
    userLabel,                      \* input label, "not set" by default
    requireCommittersApproval,      \* input require_committers_approval
    removeLabelWhenApprovalMissing, \* input remove_label_when_approval_missing
    comment,                        \* input comment, "" by default
    numOfApprovals,                 \* input numOfApprovals
    pc,                             \* position of run
    reached,                        \* positions run has completed
    pullRequestNumber,              \* <<>> while undefined, <<n>> once resolved
    labelNames,                     \* names of the labels on the fetched PR
    reviews,                        \* the fetched review list
    reviewers,                      \* getReviews: logins of the reviews, in order
    idx,                            \* getReviews: position of the reviewers loop
    reviewersAlreadyChecked,        \* getReviews: the lookup cache
    committers,                     \* getReviews: the Committer Set
    permission,                     \* r.data.permission returned for each looked-up login
    reviewStates,                   \* processReviews: the Reviewer State Map
    isApproved,
    shouldLabelBeSet,
    shouldLabelBeRemoved,
    outputs,                        \* setOutput calls, in order: <<name, value>>
    warnings,                       \* number of core.warning calls
    failed,                         \* core.setFailed was called
    failureMessage,                 \* its argument
    calls                           \* external calls issued, in order

config == <<variant, eventName, payloadHasPR, pullRequestNumberInput, userLabel,
            requireCommittersApproval, removeLabelWhenApprovalMissing, comment,
            numOfApprovals>>
vars == <<variant, eventName, payloadHasPR, pullRequestNumberInput, userLabel,
          requireCommittersApproval, removeLabelWhenApprovalMissing, comment,
          numOfApprovals, pc, reached, pullRequestNumber, labelNames, reviews,
          reviewers, idx, reviewersAlreadyChecked, committers, permission,
          reviewStates, isApproved, shouldLabelBeSet, shouldLabelBeRemoved,
          outputs, warnings, failed, failureMessage, calls>>

\* ------------------------------------------------------------------ helpers
Includes(seq, x) == \E i \in 1..Len(seq) : seq[i] = x

EmptyMap == [u \in {} |-> "APPROVED"]

Put(map, key, value) ==
    [k \in (DOMAIN map) \cup {key} |-> IF k = key THEN value ELSE map[k]]

\* String(boolean)
BoolText(b) == IF b THEN "true" ELSE "false"

\* context.payload.pull_request.number
PayloadNumber == 7

\* parseInt of the pullRequestNumber input
ParseInt(text) == IF text = "9" THEN 9 ELSE 0

Call(op, arg, ok, err) == [op |-> op, arg |-> arg, ok |-> ok, err |-> err]

\* ------------------------------------------------------------------ processReviews
\* review.state === 'APPROVED' || review.state === 'CHANGES_REQUESTED'
IsCountedState(state) == state = "APPROVED" \/ state = "CHANGES_REQUESTED"

\* variant of PassesCommitterFilter: the committers array is not consulted
PassesCommitterFilter_Everyone(cs, rca, login) == TRUE

\* the if / else-if that guards the two assignments to reviewStates
PassesCommitterFilter(cs, rca, login) ==
    IF rca /\ Includes(cs, login) THEN TRUE
    ELSE IF ~rca THEN TRUE
    ELSE FALSE

\* variant of RecordReview: the first counted state of a reviewer is kept
RecordReview_FirstWins(states, review, cs, rca) ==
    IF IsCountedState(review.state) /\ PassesCommitterFilter(cs, rca, review.user)
       /\ ~(review.user \in DOMAIN states)
    THEN Put(states, review.user, review.state)
    ELSE states

\* one iteration of the first loop of processReviews
RecordReview(states, review, cs, rca) ==
    IF IsCountedState(review.state) /\ PassesCommitterFilter(cs, rca, review.user)
    THEN Put(states, review.user, review.state)
    ELSE states

\* the first loop of processReviews over the first k reviews
RECURSIVE FoldReviews(_, _, _, _)
FoldReviews(rs, k, cs, rca) ==
    IF k = 0 THEN EmptyMap
    ELSE RecordReview(FoldReviews(rs, k - 1, cs, rca), rs[k], cs, rca)

\* the arrays approved and changesRequested (one entry per key of reviewStates)
ApprovedOf(states) == {u \in DOMAIN states : states[u] = "APPROVED"}
ChangesRequestedOf(states) == {u \in DOMAIN states : states[u] = "CHANGES_REQUESTED"}

\* variant of Decide: the changes-requested test is missing
Decide_NoVeto(nApproved, nChangesRequested, threshold) == nApproved >= threshold

\* the two ifs that set isApproved, in their order
Decide(nApproved, nChangesRequested, threshold) ==
    LET enough == IF nApproved >= threshold THEN TRUE ELSE FALSE
    IN  IF nChangesRequested > 0 THEN FALSE ELSE enough

ProcessReviewsBody ==
    /\ reviewStates' = FoldReviews(reviews, Len(reviews), committers, requireCommittersApproval)
    /\ isApproved' = Decide(Cardinality(ApprovedOf(reviewStates')),
                            Cardinality(ChangesRequestedOf(reviewStates')),
                            numOfApprovals)

\* ------------------------------------------------------------------ getReviews
\* r.data.permission === 'admin' || r.data.permission === 'write'
IsCommitter(p) == p = "admin" \/ p = "write"

\* variant of AlreadyChecked: the cache is never consulted
AlreadyChecked_Never(checked, reviewer) == FALSE

\* reviewersAlreadyChecked.includes(reviewer)
AlreadyChecked(checked, reviewer) == Includes(checked, reviewer)

\* the iterations of the reviewers loop that issue no lookup run without suspending
RECURSIVE SkipChecked(_, _, _)
SkipChecked(rvs, i, checked) ==
    IF i > Len(rvs) THEN i
    ELSE IF AlreadyChecked(checked, rvs[i]) THEN SkipChecked(rvs, i + 1, checked)
    ELSE i

\* reviews && reviews.length > 0 ? <map of the logins> : []
\* cjs maps reviews.data, which is undefined on the array it holds: a TypeError
ReviewersOf(v, rs) ==
    IF Len(rs) > 0
    THEN IF v = "esm" THEN [ok |-> TRUE, list |-> [i \in 1..Len(rs) |-> rs[i].user]]
         ELSE [ok |-> FALSE, list |-> <<>>]
    ELSE [ok |-> TRUE, list |-> <<>>]

\* ------------------------------------------------------------------ run
\* "Workflow event setup": the event kinds each variant accepts
NeedsNumberInput(v, ev) ==
    IF v = "esm" THEN ev = "workflow_run"
    ELSE ev = "workflow_run" \/ ev = "workflow_dispatch"

\* variant of ResolveEvent: a missing pullRequestNumber input is an error
ResolveEvent_MissingInputThrows(v, ev, hasPR, input) ==
    IF ev = "pull_request_review" /\ hasPR
    THEN [outcome |-> "resolved", number |-> <<PayloadNumber>>, message |-> ""]
    ELSE IF NeedsNumberInput(v, ev) /\ input # "not set"
    THEN [outcome |-> "resolved", number |-> <<ParseInt(input)>>, message |-> ""]
    ELSE [outcome |-> "throw", number |-> <<>>, message |-> "no pull request number"]

ResolveEvent(v, ev, hasPR, input) ==
    IF ev = "pull_request_review"
    THEN IF hasPR THEN [outcome |-> "resolved", number |-> <<PayloadNumber>>, message |-> ""]
         ELSE [outcome |-> "throw", number |-> <<>>,
               message |-> "Could not find PR number from context, exiting"]
    ELSE IF NeedsNumberInput(v, ev)
    THEN IF input = "not set" THEN [outcome |-> "return", number |-> <<>>, message |-> ""]
         ELSE [outcome |-> "resolved", number |-> <<ParseInt(input)>>, message |-> ""]
    ELSE [outcome |-> "throw", number |-> <<>>,
          message |-> "This action is only useful in pull_request_review or workflow_run"]

\* variant of ShouldSet: the labels already on the PR are not consulted
ShouldSet_Always(approved, labels, label) == approved

ShouldSet(approved, labels, label) == approved /\ ~(label \in labels)
ShouldRemove(approved, labels, label, removeWhenMissing) ==
    ~approved /\ label \in labels /\ removeWhenMissing

\* catch (error) { setFailed(error.message) }
CatchMessage(message) == message

\* variant of Throw: the catch block swallows the error
Throw_Swallowed(message) ==
    /\ pc' = "done"
    /\ UNCHANGED <<failed, failureMessage>>

Throw(message) ==
    /\ pc' = "done"
    /\ failed' = TRUE
    /\ failureMessage' = CatchMessage(message)

runLocals == <<pullRequestNumber, labelNames, reviews, reviewers, idx,
               reviewersAlreadyChecked, committers, permission, reviewStates,
               isApproved, shouldLabelBeSet, shouldLabelBeRemoved>>

\* ------------------------------------------------------------------ initial states
InitLocals ==
    /\ reached = {}
    /\ pullRequestNumber = <<>>
    /\ labelNames = {}
    /\ reviewers = <<>>
    /\ idx = 1
    /\ reviewersAlreadyChecked = <<>>
    /\ permission = EmptyMap
    /\ reviewStates = EmptyMap
    /\ isApproved = FALSE
    /\ shouldLabelBeSet = FALSE
    /\ shouldLabelBeRemoved = FALSE
    /\ outputs = <<>>
    /\ warnings = 0
    /\ failed = FALSE
    /\ failureMessage = ""
    /\ calls = <<>>

\* a run of the action about to enter the try block of run
Init ==
    /\ variant \in Variants
    /\ eventName \in EventNames
    /\ payloadHasPR \in BOOLEAN
    /\ pullRequestNumberInput \in NumberInputs
    /\ userLabel \in LabelInputs
    /\ requireCommittersApproval \in BOOLEAN
    /\ removeLabelWhenApprovalMissing \in BOOLEAN
    /\ comment \in CommentInputs
    /\ numOfApprovals \in Thresholds
    /\ pc = "start"
    /\ reviews = <<>>
    /\ committers = <<>>
    /\ InitLocals

\* ------------------------------------------------------------------ steps of run
\* the event setup at the head of the try block
Start ==
    /\ pc = "start"
    /\ LET r == ResolveEvent(variant, eventName, payloadHasPR, pullRequestNumberInput)
       IN  \/ /\ r.outcome = "resolved"
              /\ pullRequestNumber' = r.number
              /\ pc' = "fetchPR"
              /\ reached' = reached \cup {"start"}
              /\ UNCHANGED <<warnings, failed, failureMessage>>
           \/ /\ r.outcome = "return"
              /\ warnings' = warnings + 1
              /\ pc' = "done"
              /\ UNCHANGED <<pullRequestNumber, reached, failed, failureMessage>>
           \/ /\ r.outcome = "throw"
              /\ Throw(r.message)
              /\ UNCHANGED <<pullRequestNumber, reached, warnings>>
    /\ UNCHANGED <<config, labelNames, reviews, reviewers, idx, reviewersAlreadyChecked,
                   committers, permission, reviewStates, isApproved, shouldLabelBeSet,
                   shouldLabelBeRemoved, outputs, calls>>

\* GET /repos/{owner}/{repo}/pulls/{pull_number}, then the label names
FetchPullRequest ==
    /\ pc = "fetchPR"
    /\ \/ \E e \in ErrorMessages :
              /\ calls' = Append(calls, Call("fetchPullRequest", "", FALSE, e))
              /\ Throw(e)
              /\ UNCHANGED <<labelNames, reached>>
       \/ \E ls \in LabelSets :
              /\ calls' = Append(calls, Call("fetchPullRequest", "", TRUE, ""))
              /\ labelNames' = ls
              /\ pc' = "getReviews"
              /\ reached' = reached \cup {"fetchPR"}
              /\ UNCHANGED <<failed, failureMessage>>
    /\ UNCHANGED <<config, pullRequestNumber, reviews, reviewers, idx,
                   reviewersAlreadyChecked, committers, permission, reviewStates,
                   isApproved, shouldLabelBeSet, shouldLabelBeRemoved, outputs, warnings>>

\* getReviews up to its loop: GET .../pulls/{pull_number}/reviews and the reviewers list
FetchReviews ==
    /\ pc = "getReviews"
    /\ \/ \E e \in ErrorMessages :
              /\ calls' = Append(calls, Call("fetchReviews", "", FALSE, e))
              /\ Throw(e)
              /\ UNCHANGED <<reviews, reviewers, idx, reached>>
       \/ \E rs \in ReviewLists(Users, MaxReviews) :
              /\ calls' = Append(calls, Call("fetchReviews", "", TRUE, ""))
              /\ reviews' = rs
              /\ LET r == ReviewersOf(variant, rs)
                 IN  IF r.ok
                     THEN /\ reviewers' = r.list
                          /\ idx' = SkipChecked(r.list, 1, reviewersAlreadyChecked)
                          /\ pc' = IF requireCommittersApproval /\ idx' <= Len(r.list)
                                   THEN "lookup" ELSE "processReviews"
                          /\ reached' = reached \cup
                                 (IF pc' = "lookup" THEN {} ELSE {"getReviews"})
                          /\ UNCHANGED <<failed, failureMessage>>
                     ELSE /\ Throw("Cannot read properties of undefined (reading map)")
                          /\ UNCHANGED <<reviewers, idx, reached>>
    /\ UNCHANGED <<config, pullRequestNumber, labelNames, reviewersAlreadyChecked,
                   committers, permission, reviewStates, isApproved, shouldLabelBeSet,
                   shouldLabelBeRemoved, outputs, warnings>>

\* one permission lookup of the reviewers loop of getReviews, and the
\* iterations after it that find their reviewer already checked
LookupPermission ==
    /\ pc = "lookup"
    /\ LET reviewer == reviewers[idx]
       IN  \/ \E e \in ErrorMessages :
                  /\ calls' = Append(calls, Call("fetchPermission", reviewer, FALSE, e))
                  /\ Throw(e)
                  /\ UNCHANGED <<idx, reviewersAlreadyChecked, committers, permission,
                                 reached>>
           \/ \E p \in Permissions :
                  /\ calls' = Append(calls, Call("fetchPermission", reviewer, TRUE, ""))
                  /\ permission' = Put(permission, reviewer, p)
                  /\ committers' = IF IsCommitter(p) THEN Append(committers, reviewer)
                                   ELSE committers
                  /\ reviewersAlreadyChecked' = Append(reviewersAlreadyChecked, reviewer)
                  /\ idx' = SkipChecked(reviewers, idx + 1, reviewersAlreadyChecked')
                  /\ pc' = IF idx' <= Len(reviewers) THEN "lookup" ELSE "processReviews"
                  /\ reached' = reached \cup
                         (IF pc' = "lookup" THEN {} ELSE {"getReviews"})
                  /\ UNCHANGED <<failed, failureMessage>>
    /\ UNCHANGED <<config, pullRequestNumber, labelNames, reviews, reviewers,
                   reviewStates, isApproved, shouldLabelBeSet, shouldLabelBeRemoved,
                   outputs, warnings>>

\* processReviews(reviews, committers, requireCommittersApproval, numOfApprovals)
ProcessReviews ==
    /\ pc = "processReviews"
    /\ ProcessReviewsBody
    /\ pc' = "decide"
    /\ reached' = reached \cup {"processReviews"}
    /\ UNCHANGED <<config, pullRequestNumber, labelNames, reviews, reviewers, idx,
                   reviewersAlreadyChecked, committers, permission, shouldLabelBeSet,
                   shouldLabelBeRemoved, outputs, warnings, failed, failureMessage, calls>>

\* "Add or remove the label": the two booleans and the branch taken
DecideLabel ==
    /\ pc = "decide"
    /\ IF userLabel # "not set"
       THEN /\ shouldLabelBeSet' = ShouldSet(isApproved, labelNames, userLabel)
            /\ shouldLabelBeRemoved' = ShouldRemove(isApproved, labelNames, userLabel,
                                                    removeLabelWhenApprovalMissing)
            /\ pc' = IF shouldLabelBeSet' THEN "setLabel"
                     ELSE IF shouldLabelBeRemoved' THEN "removeLabel"
                     ELSE "outputs"
       ELSE /\ pc' = "outputs"
            /\ UNCHANGED <<shouldLabelBeSet, shouldLabelBeRemoved>>
    /\ reached' = reached \cup {"decide"}
    /\ UNCHANGED <<config, pullRequestNumber, labelNames, reviews, reviewers, idx,
                   reviewersAlreadyChecked, committers, permission, reviewStates,
                   isApproved, outputs, warnings, failed, failureMessage, calls>>

\* setLabel, then the test of comment; cjs defines no addComment: a ReferenceError
SetLabel ==
    /\ pc = "setLabel"
    /\ \/ \E e \in ErrorMessages :
              /\ calls' = Append(calls, Call("applyLabel", userLabel, FALSE, e))
              /\ Throw(e)
              /\ UNCHANGED reached
       \/ /\ calls' = Append(calls, Call("applyLabel", userLabel, TRUE, ""))
          /\ reached' = reached \cup {"setLabel"}
          /\ IF comment # ""
             THEN IF variant = "esm"
                  THEN pc' = "addComment" /\ UNCHANGED <<failed, failureMessage>>
                  ELSE Throw("addComment is not defined")
             ELSE pc' = "outputs" /\ UNCHANGED <<failed, failureMessage>>
    /\ UNCHANGED <<config, runLocals, outputs, warnings>>

\* addComment
AddComment ==
    /\ pc = "addComment"
    /\ \/ \E e \in ErrorMessages :
              /\ calls' = Append(calls, Call("postComment", comment, FALSE, e))
              /\ Throw(e)
              /\ UNCHANGED reached
       \/ /\ calls' = Append(calls, Call("postComment", comment, TRUE, ""))
          /\ reached' = reached \cup {"addComment"}
          /\ pc' = "outputs"
          /\ UNCHANGED <<failed, failureMessage>>
    /\ UNCHANGED <<config, runLocals, outputs, warnings>>

\* removeLabel
RemoveLabel ==
    /\ pc = "removeLabel"
    /\ \/ \E e \in ErrorMessages :
              /\ calls' = Append(calls, Call("removeLabel", userLabel, FALSE, e))
              /\ Throw(e)
              /\ UNCHANGED reached
       \/ /\ calls' = Append(calls, Call("removeLabel", userLabel, TRUE, ""))
          /\ reached' = reached \cup {"removeLabel"}
          /\ pc' = "outputs"
          /\ UNCHANGED <<failed, failureMessage>>
    /\ UNCHANGED <<config, runLocals, outputs, warnings>>

\* "Set outputs"; cjs reads isLabelShouldBeSet, which nothing declares: a
\* ReferenceError once the first output is set
SetOutputs ==
    /\ pc = "outputs"
    /\ IF variant = "esm"
       THEN /\ outputs' = outputs \o
                   << <<"isApproved", BoolText(isApproved)>>,
                      <<"shouldLabelBeSet", BoolText(shouldLabelBeSet)>>,
                      <<"shouldLabelBeRemoved", BoolText(shouldLabelBeRemoved)>> >>
            /\ pc' = "done"
            /\ reached' = reached \cup {"outputs"}
            /\ UNCHANGED <<failed, failureMessage>>
       ELSE /\ outputs' = Append(outputs, <<"isApproved", BoolText(isApproved)>>)
            /\ Throw("isLabelShouldBeSet is not defined")
            /\ UNCHANGED reached
    /\ UNCHANGED <<config, runLocals, warnings, calls>>

Next ==
    \/ Start
    \/ FetchPullRequest
    \/ FetchReviews
    \/ LookupPermission
    \/ ProcessReviews
    \/ DecideLabel
    \/ SetLabel
    \/ AddComment
    \/ RemoveLabel
    \/ SetOutputs

Spec == Init /\ [][Next]_vars

\* ------------------------------------------------------------------ processReviews alone
RECURSIVE SetToSeq(_)
SetToSeq(S) ==
    IF S = {} THEN <<>>
    ELSE LET x == CHOOSE y \in S : TRUE IN <<x>> \o SetToSeq(S \ {x})

\* processReviews about to be called on any review list, committers array,
\* flag and threshold
InitProcessReviews ==
    /\ variant \in Variants
    /\ eventName = "pull_request_review"
    /\ payloadHasPR = TRUE
    /\ pullRequestNumberInput = "not set"
    /\ userLabel = "not set"
    /\ requireCommittersApproval \in BOOLEAN
    /\ removeLabelWhenApprovalMissing = FALSE
    /\ comment = ""
    /\ numOfApprovals \in Thresholds
    /\ pc = "call"
    /\ reviews \in ReviewLists(FoldUsers, MaxFoldLen)
    /\ committers \in {SetToSeq(S) : S \in SUBSET FoldUsers}
    /\ InitLocals

CallProcessReviews ==
    /\ pc = "call"
    /\ ProcessReviewsBody
    /\ pc' = "returned"
    /\ reached' = reached \cup {"processReviews"}
    /\ UNCHANGED <<config, pullRequestNumber, labelNames, reviews, reviewers, idx,
                   reviewersAlreadyChecked, committers, permission, shouldLabelBeSet,
                   shouldLabelBeRemoved, outputs, warnings, failed, failureMessage, calls>>

NextProcessReviews == CallProcessReviews

SpecProcessReviews == InitProcessReviews /\ [][NextProcessReviews]_vars

\* ------------------------------------------------------------------ properties
CountedStates == {"APPROVED", "CHANGES_REQUESTED"}

\* positions of the reviews of u that carry a counted state
CountedAt(rs, u) == {i \in 1..Len(rs) : rs[i].user = u /\ rs[i].state \in CountedStates}

\* state of the last review of u that carries a counted state
LastCounted(rs, u) ==
    rs[CHOOSE i \in CountedAt(rs, u) : \A j \in CountedAt(rs, u) : j <= i].state

LoginsOf(rs) == {rs[i].user : i \in 1..Len(rs)}
ElementsOf(seq) == {seq[i] : i \in 1..Len(seq)}

CallsOf(op) == {i \in 1..Len(calls) : calls[i].op = op}
LookupsOf(u) == {i \in CallsOf("fetchPermission") : calls[i].arg = u}
LabelMutations == CallsOf("applyLabel") \cup CallsOf("removeLabel")
NoCallFailed == \A i \in 1..Len(calls) : calls[i].ok
Returned == "processReviews" \in reached

\* C1: once processReviews has returned for a positive threshold, isApproved
\* is true exactly when the reviewers whose state in the Reviewer State Map
\* is APPROVED number at least the threshold and no reviewer's state in the
\* map is CHANGES_REQUESTED.
C1_DecisionRule ==
    (Returned /\ numOfApprovals > 0) =>
        (isApproved <=>
            /\ Cardinality({u \in DOMAIN reviewStates : reviewStates[u] = "APPROVED"})
                   >= numOfApprovals
            /\ \A u \in DOMAIN reviewStates : reviewStates[u] # "CHANGES_REQUESTED")

\* the veto: enough approvals, one CHANGES_REQUESTED, not approved
C1_Witness ==
    /\ Returned
    /\ numOfApprovals = 2
    /\ Cardinality({u \in DOMAIN reviewStates : reviewStates[u] = "APPROVED"}) = 2
    /\ \E u \in DOMAIN reviewStates : reviewStates[u] = "CHANGES_REQUESTED"
    /\ ~isApproved

\* the reviewers processReviews may record: all of them, or the committers
Eligible(u) == requireCommittersApproval => Includes(committers, u)

\* C2: once processReviews has returned, the Reviewer State Map has an entry
\* for a reviewer it may record exactly when that reviewer has a review whose
\* state is APPROVED or CHANGES_REQUESTED, every entry is the state of its
\* reviewer's last such review, and reviews in any other state create,
\* overwrite and remove nothing.
C2_LatestStateWins ==
    Returned =>
        /\ \A u \in DOMAIN reviewStates :
              /\ CountedAt(reviews, u) # {}
              /\ reviewStates[u] = LastCounted(reviews, u)
        /\ \A u \in LoginsOf(reviews) :
              (Eligible(u) /\ CountedAt(reviews, u) # {}) => u \in DOMAIN reviewStates

\* APPROVED, then CHANGES_REQUESTED, then COMMENTED by one reviewer
C2_Witness ==
    /\ Returned
    /\ \E u \in DOMAIN reviewStates :
          /\ Len(reviews) = 3
          /\ \A i \in 1..3 : reviews[i].user = u
          /\ reviews[1].state = "APPROVED"
          /\ reviews[2].state = "CHANGES_REQUESTED"
          /\ reviews[3].state = "COMMENTED"
          /\ reviewStates[u] = "CHANGES_REQUESTED"

\* the reviewers whose reviews count in a run, by the permission the API returned
CountsInRun(u) ==
    /\ CountedAt(reviews, u) # {}
    /\ requireCommittersApproval =>
           (u \in DOMAIN permission /\ permission[u] \in {"admin", "write"})

\* C3: in a run, once processReviews has returned, the Reviewer State Map
\* holds exactly the reviewers with an APPROVED or CHANGES_REQUESTED review
\* who, when requireCommittersApproval is true, were returned permission admin
\* or write; the approval decision counts the latest states of these
\* reviewers only, so a non-committer neither helps reach the threshold nor
\* vetoes, and with the flag false every such review counts.
C3_CommitterFilter ==
    Returned =>
        LET counted == {u \in LoginsOf(reviews) : CountsInRun(u)}
            approvals == {u \in counted : LastCounted(reviews, u) = "APPROVED"}
            vetoes == {u \in counted : LastCounted(reviews, u) = "CHANGES_REQUESTED"}
        IN  /\ DOMAIN reviewStates = counted
            /\ isApproved <=> (Cardinality(approvals) >= numOfApprovals /\ vetoes = {})

\* a non-committer's CHANGES_REQUESTED does not veto a committer's approval
C3_Witness ==
    /\ Returned
    /\ requireCommittersApproval
    /\ numOfApprovals = 1
    /\ isApproved
    /\ \E u \in LoginsOf(reviews) :
          /\ permission[u] = "read"
          /\ LastCounted(reviews, u) = "CHANGES_REQUESTED"

\* C4 as stated: in every run the two booleans are the stated conjunctions of
\* isApproved, the label being on the PR and removeLabelWhenApprovalMissing.
C4_AsStated ==
    "decide" \in reached =>
        /\ shouldLabelBeSet = (isApproved /\ ~(userLabel \in labelNames))
        /\ shouldLabelBeRemoved =
               (~isApproved /\ userLabel \in labelNames /\ removeLabelWhenApprovalMissing)

\* C4: in every run whose label input is not "not set" the two booleans are
\* the stated conjunctions, and with the label input "not set" both are
\* false; they are never both true, at most one label mutation is issued,
\* and none is issued when the label input is "not set" or when the PR is
\* not approved and removeLabelWhenApprovalMissing is false.
C4_LabelDecision ==
    /\ "decide" \in reached =>
          /\ userLabel # "not set" =>
                /\ shouldLabelBeSet = (isApproved /\ ~(userLabel \in labelNames))
                /\ shouldLabelBeRemoved =
                       (~isApproved /\ userLabel \in labelNames
                            /\ removeLabelWhenApprovalMissing)
          /\ userLabel = "not set" => (~shouldLabelBeSet /\ ~shouldLabelBeRemoved)
    /\ ~(shouldLabelBeSet /\ shouldLabelBeRemoved)
    /\ Cardinality(LabelMutations) <= 1
    /\ LabelMutations # {} =>
          /\ userLabel # "not set"
          /\ "decide" \in reached
          /\ isApproved \/ removeLabelWhenApprovalMissing
          /\ CallsOf("applyLabel") # {} <=> shouldLabelBeSet
          /\ CallsOf("removeLabel") # {} <=> shouldLabelBeRemoved

\* not approved, label on the PR, removal asked for: the one mutation of the
\* run is the removal
C4_Witness ==
    /\ pc = "done"
    /\ "outputs" \in reached
    /\ ~isApproved
    /\ userLabel \in labelNames
    /\ removeLabelWhenApprovalMissing
    /\ shouldLabelBeRemoved
    /\ ~shouldLabelBeSet
    /\ Cardinality(CallsOf("removeLabel")) = 1
    /\ CallsOf("applyLabel") = {}

\* C5: a run that resolved a pull-request number and saw no external call
\* fail ends not marked failed, with the three outputs isApproved,
\* shouldLabelBeSet and shouldLabelBeRemoved set to the text of its booleans.
C5_AllOutputsSet ==
    (pc = "done" /\ pullRequestNumber # <<>> /\ NoCallFailed) =>
        /\ ~failed
        /\ outputs = << <<"isApproved", BoolText(isApproved)>>,
                        <<"shouldLabelBeSet", BoolText(shouldLabelBeSet)>>,
                        <<"shouldLabelBeRemoved", BoolText(shouldLabelBeRemoved)>> >>

\* C6: a run triggered by workflow_run with no pullRequestNumber input is
\* never marked failed, sets no output, issues no external call, and ends
\* right after the event setup.
C6_SoftExit ==
    (eventName = "workflow_run" /\ pullRequestNumberInput = "not set") =>
        /\ ~failed
        /\ outputs = <<>>
        /\ calls = <<>>
        /\ pc \in {"start", "done"}

C6_Witness ==
    /\ eventName = "workflow_run"
    /\ pullRequestNumberInput = "not set"
    /\ pc = "done"
    /\ warnings = 1

\* C7: a failed external call is the last call of its run: the run has ended,
\* is marked failed with that call's error message, and has set no output.
C7_FailureAborts ==
    \A i \in 1..Len(calls) :
        ~calls[i].ok =>
            /\ i = Len(calls)
            /\ pc = "done"
            /\ failed
            /\ failureMessage = calls[i].err
            /\ outputs = <<>>

\* the second permission lookup of a run fails
C7_Witness ==
    /\ Len(calls) = 4
    /\ calls[4].op = "fetchPermission"
    /\ ~calls[4].ok
    /\ failed

\* C8: a run triggered by an event other than pull_request_review and
\* workflow_run, or by pull_request_review without a pull request in the
\* payload, issues no external call, sets no output and ends marked failed.
C8_UnsupportedEventFails ==
    (\/ ~(eventName \in {"pull_request_review", "workflow_run"})
     \/ (eventName = "pull_request_review" /\ ~payloadHasPR)) =>
        /\ calls = <<>>
        /\ outputs = <<>>
        /\ pc = "done" => failed

\* C9: no reviewer is looked up twice; once getReviews has returned, with
\* requireCommittersApproval true every login of the review list was looked
\* up exactly once and is in committers exactly when the permission returned
\* is admin or write, and with it false no lookup was issued and committers
\* is empty.
C9_OneLookupPerReviewer ==
    /\ \A u \in Users : Cardinality(LookupsOf(u)) <= 1
    /\ "getReviews" \in reached =>
          IF requireCommittersApproval
          THEN /\ \A u \in LoginsOf(reviews) :
                     /\ Cardinality(LookupsOf(u)) = 1
                     /\ Includes(committers, u) <=> permission[u] \in {"admin", "write"}
               /\ ElementsOf(committers) \subseteq LoginsOf(reviews)
          ELSE CallsOf("fetchPermission") = {} /\ committers = <<>>

\* one reviewer with two reviews, looked up once and found a committer
C9_Witness ==
    /\ "getReviews" \in reached
    /\ requireCommittersApproval
    /\ Len(reviews) = 2
    /\ reviews[1].user = reviews[2].user
    /\ committers = <<reviews[1].user>>
    /\ Cardinality(CallsOf("fetchPermission")) = 1

\* C10: a label mutation follows the PR fetch, the review fetch and every
\* permission lookup; at most one comment is posted, only after a successful
\* apply-label call; and a run that has ended posted a comment exactly when
\* its label was newly applied, the apply-label call succeeded and the
\* comment input is non-empty.
C10_CommentFollowsNewLabel ==
    /\ \A i \in LabelMutations :
          /\ \E j \in CallsOf("fetchPullRequest") : j < i /\ calls[j].ok
          /\ \E j \in CallsOf("fetchReviews") : j < i /\ calls[j].ok
          /\ \A j \in CallsOf("fetchPermission") : j < i /\ calls[j].ok
    /\ Cardinality(CallsOf("postComment")) <= 1
    /\ \A i \in CallsOf("postComment") :
          /\ \E j \in CallsOf("applyLabel") : j < i /\ calls[j].ok
          /\ CallsOf("removeLabel") = {}
    /\ pc = "done" =>
          (CallsOf("postComment") # {} <=>
              /\ shouldLabelBeSet
              /\ \E j \in CallsOf("applyLabel") : calls[j].ok
              /\ comment # "")

====
